---- MODULE Spec2Model ----
(***************************************************************************)
(* State-machine model of the MaiBot-Napcat-Adapter routing engine         *)
(* (src/main.py): handshake authentication, the per-connection read loop   *)
(* message_recv, the dispatcher loop message_process and the drain phase   *)
(* and teardown of graceful_shutdown.                                      *)
(*                                                                         *)
(* The program runs on one asyncio event loop, so every action below is    *)
(* the code between two suspension points (await) of one coroutine.        *)
(* Python strings are modelled as tuples of one-character strings, None    *)
(* as the empty tuple <<>> and a present value v as <<v>>; a dict is a set *)
(* of <<key, value>> pairs.                                                *)
(***************************************************************************)
EXTENDS Integers, Sequences, FiniteSets, TLC

(***************************************************************************)
(* Bounds of the model.                                                    *)
(***************************************************************************)
\* connection attempts made by front-protocol clients
MaxConns == 2
\* frames read in total by all connections
MaxFrames == 2
\* number of 0.1 s polls of the drain wait that stand for max_wait_time
\* (30 s / 0.1 s in the source)
MaxWaitTicks == 1
\* configuration-change notifications for the napcat_server section
MaxConfigChanges == 2
\* sends the detector issues through _send_message_to_napcat
MaxSends == 1
\* calls of graceful_shutdown
MaxShutdownCalls == 2
\* ticks of the clock of the correlation pool
MaxClock == 4
\* management requests, each on its own request thread
MaxHttpRequests == 2
\* entries of prompt_injection.models
MaxModels == 2

Conns == 1 .. MaxConns

VARIABLES
    token,                \* global_config.napcat_server.token
    pi_enable,            \* global_config.prompt_injection.enable
    websocket_server,     \* "none" | "serving" | "closed"
    conn,                 \* per connection attempt: its state
    request,              \* per connection attempt: the handshake headers
    handles,              \* producer -> connection id it holds (0: None)
    notice_tasks,         \* created, not yet run notice_handler.set_server_connection tasks
    message_queue,        \* asyncio.Queue contents
    pending_messages,
    processing_messages,
    shutdown_requested,
    mp_pc,                \* position of message_process
    mp_item,              \* the item message_process is handling (<<>>: none)
    gs_pc,                \* position of graceful_shutdown
    waited_time,          \* in polls of wait_interval
    nrecv,                \* frames read so far
    response_pool,        \* payloads handed to put_response, in order
    log,                  \* history: every frame read and the branch it took
    dispatched,           \* history: handler invocations, in order
    sup_pc,               \* position of napcat_with_restart
    sup_snapshot,         \* the address napcat_server was called with
    restart_event,        \* asyncio.Event restart_event is set
    cfg_pc,               \* position of on_napcat_config_change
    cfg_version,          \* version of global_config.napcat_server
    bound,                \* listeners holding a bind, by address version
    ws_snap,              \* address version of the listener in websocket_server
    sends,                \* history: outcomes of _send_message_to_napcat
    exit_code,            \* exit status of the process (None: running)
    ms_pc,                \* position of the call of message_send
    ms_in,                \* the message and environment of that call
    ms_out,               \* what the call has done and returned
    td_steps,             \* teardown steps of this run of graceful_shutdown
    gs_run,               \* number of calls of graceful_shutdown
    detector_set,         \* _global_detector is not None
    http_running,         \* http_api_server._running
    released,             \* history: releases of the present detector,
                          \* HTTP server and listener
    now,                  \* the clock the correlation pool reads
    next_sweep,           \* the time of the next sweep of the pool
    pool,                 \* the pending requests of the correlation pool
    replies,              \* history: what _send_message_to_napcat returned
    group_list0,          \* chat.group_list as loaded from config.toml
    group_list,           \* global_config.chat.group_list
    config_file,          \* chat.group_list in config.toml
    th,                   \* the request threads of the HTTP endpoint
    di_pc,                \* detect_injection: "idle", "loop", "returned"
    di_in,                \* the configuration and message of the call
    di_avail,             \* available_models
    di_calls,             \* history: the models _call_api was called with
    di_out                \* what detect_injection returned

vars == <<token, pi_enable, websocket_server, conn, request, handles,
          notice_tasks, message_queue, pending_messages, processing_messages,
          shutdown_requested, mp_pc, mp_item, gs_pc, waited_time, nrecv,
          response_pool, log, dispatched, sup_pc, sup_snapshot, restart_event,
          cfg_pc, cfg_version, bound, ws_snap, sends, exit_code,
          ms_pc, ms_in, ms_out, td_steps, gs_run, detector_set, http_running,
          released, now, next_sweep, pool, replies, group_list0, group_list,
          config_file, th, di_pc, di_in, di_avail, di_calls, di_out>>

\* the state of the restart supervisor and of the configuration callback
supvars == <<sup_pc, sup_snapshot, restart_event, cfg_pc, cfg_version, bound, ws_snap>>

\* the detector's sends and the exit status
auxvars == <<sends, exit_code>>

\* the correlation pool, its clock and the results of the awaiting callers
poolvars == <<now, next_sweep, pool, replies>>

\* the managed group list and the request threads of the HTTP endpoint
httpvars == <<group_list0, group_list, config_file, th>>

\* the call of detect_injection
detvars == <<di_pc, di_in, di_avail, di_calls, di_out>>

\* the teardown of graceful_shutdown and the resources it releases
shutvars == <<td_steps, gs_run, detector_set, http_running, released>>

\* the call of message_send
sendvars == <<ms_pc, ms_in, ms_out>>

\* the configuration values read by the ingress
cfgvars == <<token, pi_enable>>

\* the work queue, its counters, the dispatcher and the histories
pipevars == <<message_queue, pending_messages, processing_messages, mp_pc,
              mp_item, nrecv, response_pool, log, dispatched>>

\* the state of graceful_shutdown
gsvars == <<shutdown_requested, gs_pc, waited_time>>

(***************************************************************************)
(* Strings, options and dicts.                                             *)
(***************************************************************************)
None == <<>>

Some(v) == <<v>>

\* dict.get(key) / headers.get(key)
DictGet(d, key) ==
    LET hits == {p \in d : p[1] = key}
    IN  IF hits = {} THEN None ELSE Some((CHOOSE p \in hits : TRUE)[2])

IsWhitespace(ch) == ch \in {" ", "\t", "\n", "\r"}

RECURSIVE LStrip(_)
LStrip(s) ==
    IF s # <<>> /\ IsWhitespace(Head(s)) THEN LStrip(Tail(s)) ELSE s

RECURSIVE RStrip(_)
RStrip(s) ==
    IF s # <<>> /\ IsWhitespace(s[Len(s)])
    THEN RStrip(SubSeq(s, 1, Len(s) - 1))
    ELSE s

\* str.strip()
Strip(s) == RStrip(LStrip(s))

\* the f-string f"Bearer {token}"
BearerOf(tok) == <<"B", "e", "a", "r", "e", "r", " ">> \o tok

(***************************************************************************)
(* Inputs: configured tokens, handshake requests, raw frames.              *)
(***************************************************************************)
Tokens == {<<>>, <<" ">>, <<"t">>}

Requests ==
    { {},
      {<<"Authorization", BearerOf(<<"t">>)>>},
      {<<"Authorization", BearerOf(<<"x">>)>>},
      {<<"Authorization", <<"t">>>>} }

\* decoded payloads a well-formed frame can carry
Payloads ==
    { {<<"post_type", "message">>},
      {<<"post_type", "notice">>},
      {<<"post_type", "meta_event">>},
      {<<"post_type", "request">>},
      {<<"echo", "e1">>} }

\* a raw frame: well-formed JSON of a payload, or text that is no JSON
RawFrames ==
    {[ok |-> TRUE, obj |-> d] : d \in Payloads} \cup {[ok |-> FALSE, obj |-> {}]}

\* json.loads: Some(dict), or None for a JSONDecodeError
JsonLoads(raw) == IF raw.ok THEN Some(raw.obj) ELSE None

Producers == {"message_handler", "notice_handler", "nc_message_sender", "detector"}

(***************************************************************************)
(* check_napcat_server_token: None (accept) or an UNAUTHORIZED response.   *)
(***************************************************************************)
\* variant: a request without an Authorization header is let through
check_token_absent_header_passes(tok, req) ==
    IF tok = <<>> \/ Strip(tok) = <<>>
    THEN None
    ELSE IF DictGet(req, "Authorization") # None
            /\ DictGet(req, "Authorization") # Some(BearerOf(tok))
         THEN Some("UNAUTHORIZED")
         ELSE None

\* variant: only the empty token switches the check off
check_token_no_strip(tok, req) ==
    IF tok = <<>>
    THEN None
    ELSE IF DictGet(req, "Authorization") # Some(BearerOf(tok))
         THEN Some("UNAUTHORIZED")
         ELSE None

check_napcat_server_token(tok, req) ==
    IF tok = <<>> \/ Strip(tok) = <<>>
    THEN None
    ELSE IF DictGet(req, "Authorization") # Some(BearerOf(tok))
         THEN Some("UNAUTHORIZED")
         ELSE None

(***************************************************************************)
(* Frame classification of message_recv.                                   *)
(***************************************************************************)
\* variant: the last branch is a plain else, so any other post_type goes to
\* the pool too
ClassifyElsePool(decoded) ==
    LET post_type == DictGet(decoded, "post_type")
    IN  IF post_type \in {Some("meta_event"), Some("message"), Some("notice")}
        THEN "queue"
        ELSE "pool"

\* variant: a frame without post_type is dropped
ClassifyDropsResponses(decoded) ==
    LET post_type == DictGet(decoded, "post_type")
    IN  IF post_type \in {Some("meta_event"), Some("message"), Some("notice")}
        THEN "queue"
        ELSE "drop"

Classify(decoded) ==
    LET post_type == DictGet(decoded, "post_type")
    IN  IF post_type \in {Some("meta_event"), Some("message"), Some("notice")}
        THEN "queue"
        ELSE IF post_type = None THEN "pool" ELSE "drop"

\* variant: the read loop does not look at the shutdown flag
RecvBranchNoShutdownCheck(raw, shutdown) ==
    IF JsonLoads(raw) = None THEN "error" ELSE Classify(JsonLoads(raw)[1])

\* the branch one iteration of the read loop takes for a raw frame: "break"
\* (shutdown seen), "error" (json.loads raised) or the classification
RecvBranch(raw, shutdown) ==
    IF shutdown THEN "break"
    ELSE IF JsonLoads(raw) = None THEN "error"
    ELSE Classify(JsonLoads(raw)[1])

\* the handler message_process picks for an item
HandlerFor(message) ==
    LET post_type == DictGet(message, "post_type")
    IN  IF post_type = Some("message") THEN "message_handler"
        ELSE IF post_type = Some("meta_event") THEN "meta_event_handler"
        ELSE IF post_type = Some("notice") THEN "notice_handler"
        ELSE "none"

\* main() creates napcat_task as None and nothing assigns it afterwards
napcat_task == None

\* a close that leaves the listening socket bound
CloseListenerNoop(listeners, snap) == listeners

\* Server.close() and the exit of `async with Server.serve(...)`: the
\* listening socket of that listener is released
CloseListener(listeners, snap) == listeners \ {snap}

\* a send that does not look at the state of the connection
SendOutcomeIgnoresClosed(h, st) ==
    IF h = 0 THEN "no connection" ELSE "awaiting_response"

\* _send_message_to_napcat: without a handle the error dict "no connection";
\* server_connection.send on a connection that is not open raises
\* ConnectionClosed, outside the try, to the caller; otherwise the request
\* is sent and get_response is awaited (a dict, or "timeout")
SendOutcome(h, st) ==
    IF h = 0 THEN "no connection"
    ELSE IF st # "open" THEN "ConnectionClosed"
    ELSE "awaiting_response"

\* the exit status of the process: the except clauses of __main__ call
\* sys.exit(1) for OSError and Exception and nothing for KeyboardInterrupt;
\* the finally clause then calls sys.exit(0), which replaces the SystemExit
\* in flight
ExitStatus(outcome) ==
    LET in_except == IF outcome \in {"OSError", "Exception"} THEN Some(1) ELSE None
        in_finally == Some(0)
    IN  IF in_finally # None THEN in_finally[1] ELSE in_except[1]

(***************************************************************************)
(* message_send and the blocking decision of the detector.                 *)
(***************************************************************************)
MAX_MESSAGE_SIZE_BYTES == 95 * 1024 * 1024

\* serialized sizes around the ceiling
Sizes == {1, MAX_MESSAGE_SIZE_BYTES - 1, MAX_MESSAGE_SIZE_BYTES,
          MAX_MESSAGE_SIZE_BYTES + 1}

\* values of prompt_injection.sensitivity, the documented 1..4 and two others
Sensitivities == 0 .. 5

RiskLevels == {"HIGH", "MEDIUM", "LOW", "NONE"}

\* the message segment: text only, or with something else in it
Segs == {"text", "image"}

\* _is_text_only_message and a non-empty _extract_text_content
TextOnly(seg) == seg = "text"

\* a decision that blocks LOW only at sensitivity 4
should_block_low_late(sensitivity, risk_level) ==
    IF sensitivity = 1 THEN risk_level = "HIGH"
    ELSE IF sensitivity = 2 THEN risk_level \in {"HIGH", "MEDIUM"}
    ELSE IF sensitivity = 3 THEN risk_level \in {"HIGH", "MEDIUM"}
    ELSE IF sensitivity = 4 THEN TRUE
    ELSE risk_level \in {"HIGH", "MEDIUM"}

\* PromptInjectionDetector._should_block
should_block(sensitivity, risk_level) ==
    IF sensitivity = 1 THEN risk_level = "HIGH"
    ELSE IF sensitivity = 2 THEN risk_level \in {"HIGH", "MEDIUM"}
    ELSE IF sensitivity = 3 THEN risk_level \in {"HIGH", "MEDIUM", "LOW"}
    ELSE IF sensitivity = 4 THEN TRUE
    ELSE risk_level \in {"HIGH", "MEDIUM"}

\* is_injection of detect_injection: the decision on the risk level the
\* model answered with, False when no model gave a usable answer
detect_injection(ok, sensitivity, risk_level) ==
    IF ok THEN should_block(sensitivity, risk_level) ELSE FALSE

\* a size check that lets everything through
OverCeilingNever(msg_size_bytes) == FALSE

\* `if msg_size_bytes > MAX_MESSAGE_SIZE_BYTES`
OverCeiling(msg_size_bytes) == msg_size_bytes > MAX_MESSAGE_SIZE_BYTES

\* no call of message_send yet
NoCall == [seg |-> "text", private |-> FALSE, sensitivity |-> 2, size |-> 1]

NoEffect == [risk |-> "none", blocked |-> FALSE, warned |-> FALSE, reported |-> FALSE,
             forwarded |-> FALSE, result |-> "none"]

\* message_send from the size check on: an oversized message is dropped
\* and False returned, any other goes to maibot_router.send_message
SizeCheck(out, msg_size_bytes) ==
    IF OverCeiling(msg_size_bytes)
    THEN [pc |-> "returned", out |-> [out EXCEPT !.result = "False"]]
    ELSE [pc |-> "route", out |-> out]

(***************************************************************************)
(* The correlation pool (src.response_pool): a request is registered with  *)
(* a deadline, a response frame resolves the pending request of its token, *)
(* the sweeper times out the requests whose deadline has passed.           *)
(***************************************************************************)
\* the timeout window of a request, in ticks
TimeoutWindow == 3

\* the interval of the sweeper, in ticks
SweepInterval == 2

\* get_response: the request is pending until now + TimeoutWindow
get_response(pl, tok, t) == pl \cup {[token |-> tok, deadline |-> t + TimeoutWindow]}

\* put_response: the pending request with the token of the frame, if any,
\* is resolved and leaves the pool; a frame with another token or none
\* changes nothing
put_response(pl, response) ==
    LET match == {p \in pl : Some(p.token) = DictGet(response, "echo")}
    IN  [pool |-> pl \ match,
         resolved |-> IF match = {} THEN <<>> ELSE <<CHOOSE p \in match : TRUE>>]

\* the pending requests the sweeper times out at time t
Expired(pl, t) == {p \in pl : t >= p.deadline}

\* a send that lets the TimeoutError of get_response escape
SendResultTimeoutEscapes(kind, frame) ==
    IF kind = "Timeout"
    THEN [status |-> "raised", message |-> "TimeoutError", frame |-> 0]
    ELSE [status |-> "response", message |-> "", frame |-> frame]

\* what _send_message_to_napcat returns once get_response is over: the
\* response, or for a TimeoutError the error dict "timeout"
SendResult(kind, frame) ==
    IF kind = "Timeout"
    THEN [status |-> "error", message |-> "timeout", frame |-> 0]
    ELSE [status |-> "response", message |-> "", frame |-> frame]

(***************************************************************************)
(* The teardown of graceful_shutdown.                                      *)
(***************************************************************************)
\* what graceful_shutdown releases
Resources == {"detector", "http", "listener"}

\* how a teardown step ends: it returns, it raises, or it never finishes
StepOutcomes == {"ok", "raise", "hang"}

\* an order with the listener closed first
TeardownOrderListenerFirst ==
    <<"ws_close", "cleanup_detector", "http_stop", "mmc_stop", "cancel_tasks">>

\* the steps in the order of the statements of lines 249-299
TeardownOrder ==
    <<"cleanup_detector", "http_stop", "ws_close", "mmc_stop", "cancel_tasks">>

\* the steps awaited under asyncio.wait_for(..., timeout=3)
StepBounded(step) == step \in {"mmc_stop", "cancel_tasks"}

\* the statement after a teardown step
NextTeardown(step) ==
    LET i == CHOOSE j \in DOMAIN TeardownOrder : TeardownOrder[j] = step
    IN  IF i = Len(TeardownOrder) THEN "done" ELSE TeardownOrder[i + 1]

\* a teardown whose first failing step ends graceful_shutdown
AfterStepAborts(step, outcome) ==
    IF outcome = "hang" /\ ~StepBounded(step) THEN "hung"
    ELSE IF outcome = "raise" THEN "done"
    ELSE NextTeardown(step)

\* where graceful_shutdown is after a step: every step has its own
\* try/except Exception, so a raise goes on with the next one; a step that
\* never finishes is left by the timeout when it is awaited under wait_for,
\* and holds graceful_shutdown for ever otherwise
AfterStep(step, outcome) ==
    IF outcome = "hang" /\ ~StepBounded(step) THEN "hung"
    ELSE NextTeardown(step)

\* a stop that does not look at _running
HttpStopAlways(running) == TRUE

\* HttpApiServer.stop: `if not self._running: return`
HttpStopNeeded(running) == running

(***************************************************************************)
(* The HTTP endpoint: /api?do=update_group_list&id=..&action=add|rm, each  *)
(* request handled on its own thread (ThreadingMixIn).                     *)
(***************************************************************************)
Threads == 1 .. MaxHttpRequests

GroupIds == {1, 2}

\* the value of the id parameter: absent (<<>>), decimal digits, other text
IdStrings == {<<>>, <<"1">>, <<"2">>, <<"0", "1">>, <<"x">>}

\* the value of the action parameter; "none" is absent or any other text
HttpActions == {"add", "rm", "none"}

HttpRequests == [id : IdStrings, action : HttpActions]

IsDigit(ch) == ch \in {"0", "1", "2"}

DigitValue(ch) == CASE ch = "0" -> 0 [] ch = "1" -> 1 [] ch = "2" -> 2

RECURSIVE IntOfDigits(_)
IntOfDigits(str) ==
    IF str = <<>> THEN 0
    ELSE 10 * IntOfDigits(SubSeq(str, 1, Len(str) - 1)) + DigitValue(str[Len(str)])

\* int(group_id_str): the number, or None for a ValueError
ParseInt(str) ==
    IF str = <<>> \/ \E i \in DOMAIN str : ~IsDigit(str[i])
    THEN None
    ELSE Some(IntOfDigits(str))

\* `x in current_list`
Contains(list, x) == \E i \in DOMAIN list : list[i] = x

\* list.remove(x): the first occurrence goes
RemoveFirst(list, x) ==
    LET i == CHOOSE k \in DOMAIN list :
                 list[k] = x /\ \A j \in 1 .. (k - 1) : list[j] # x
    IN  SubSeq(list, 1, i - 1) \o SubSeq(list, i + 1, Len(list))

\* variant: add appends without looking for the id
UpdateDecisionAddAlways(current_list, req) ==
    IF req.id = <<>> \/ ParseInt(req.id) = None \/ req.action \notin {"add", "rm"}
    THEN [status |-> 400, changed |-> FALSE, list |-> current_list]
    ELSE LET group_id == ParseInt(req.id)[1]
         IN  IF req.action = "add"
             THEN [status |-> 200, changed |-> TRUE,
                   list |-> Append(current_list, group_id)]
             ELSE IF ~Contains(current_list, group_id)
                  THEN [status |-> 200, changed |-> FALSE, list |-> current_list]
                  ELSE [status |-> 200, changed |-> TRUE,
                        list |-> RemoveFirst(current_list, group_id)]

\* _handle_update_group_list up to the assignment: 400 for a missing or
\* invalid id or action; 200 with the list as it is for adding a present id
\* or removing an absent one; otherwise the changed copy of the list
UpdateDecision(current_list, req) ==
    IF req.id = <<>> \/ ParseInt(req.id) = None \/ req.action \notin {"add", "rm"}
    THEN [status |-> 400, changed |-> FALSE, list |-> current_list]
    ELSE LET group_id == ParseInt(req.id)[1]
         IN  IF req.action = "add"
             THEN IF Contains(current_list, group_id)
                  THEN [status |-> 200, changed |-> FALSE, list |-> current_list]
                  ELSE [status |-> 200, changed |-> TRUE,
                        list |-> Append(current_list, group_id)]
             ELSE IF ~Contains(current_list, group_id)
                  THEN [status |-> 200, changed |-> FALSE, list |-> current_list]
                  ELSE [status |-> 200, changed |-> TRUE,
                        list |-> RemoveFirst(current_list, group_id)]

\* a thread that has no request yet
NoRequest == [pc |-> "new", req |-> [id |-> <<>>, action |-> "none"], list |-> <<>>,
              status |-> 0, before |-> <<>>, after |-> <<>>]

\* the lists without duplicates a configuration file can hold
DupFreeLists ==
    {l \in UNION {[1 .. n -> GroupIds] : n \in 0 .. Cardinality(GroupIds)} :
        \A i, j \in DOMAIN l : l[i] = l[j] => i = j}

(***************************************************************************)
(* detect_injection: the checks before the loop and the loop over          *)
(* config.models.                                                          *)
(***************************************************************************)
\* `if len(message.strip()) < 12`
MinDetectLen == 12

\* lengths of message.strip()
StrippedLens == {0, MinDetectLen - 1, MinDetectLen}

ModelNames == {"m1", "m2"}

ModelLists == UNION {[1 .. n -> ModelNames] : n \in 0 .. MaxModels}

\* what one call of _call_api ends with: result["success"], a result
\* without success, or an exception
CallOutcomes == {"success", "fail", "raise"}

NoDetection == [enable |-> FALSE, api_key |-> FALSE, len |-> 0, models |-> <<>>]

NoResult == [kind |-> "none", model |-> "", is_injection |-> FALSE]

\* the returns before the loop: detection off, no API key, empty message,
\* message shorter than 12 characters
Precheck(in) ==
    IF ~in.enable THEN "disabled"
    ELSE IF ~in.api_key THEN "no_api_key"
    ELSE IF in.len = 0 THEN "empty"
    ELSE IF in.len < MinDetectLen THEN "short"
    ELSE "detect"

\* variant: a message no model could judge is blocked
AllFailedBlocks == [kind |-> "all_failed", model |-> "", is_injection |-> TRUE]

\* the return after the loop: every model failed
AllFailed == [kind |-> "all_failed", model |-> "", is_injection |-> FALSE]

\* the state at the start of main(), all but the configuration
InitState ==
    /\ websocket_server = "none"
    /\ conn = [c \in Conns |-> "idle"]
    /\ request = [c \in Conns |-> {}]
    /\ handles = [p \in Producers |-> 0]
    /\ notice_tasks = <<>>
    /\ message_queue = <<>>
    /\ pending_messages = 0
    /\ processing_messages = 0
    /\ shutdown_requested = FALSE
    /\ mp_pc = "loop"
    /\ mp_item = <<>>
    /\ gs_pc = "idle"
    /\ waited_time = 0
    /\ nrecv = 0
    /\ response_pool = <<>>
    /\ log = <<>>
    /\ dispatched = <<>>
    /\ sup_pc = "start"
    /\ sup_snapshot = 0
    /\ restart_event = FALSE
    /\ cfg_pc = "idle"
    /\ cfg_version = 0
    /\ bound = {}
    /\ ws_snap = 0
    /\ sends = <<>>
    /\ exit_code = None
    /\ ms_pc = "idle"
    /\ ms_in = NoCall
    /\ ms_out = NoEffect
    /\ td_steps = <<>>
    /\ gs_run = 0
    /\ detector_set = FALSE
    /\ http_running = FALSE
    /\ released = [r \in Resources |-> 0]
    /\ now = 0
    /\ next_sweep = 0
    /\ pool = {}
    /\ replies = <<>>
    /\ th = [t \in Threads |-> NoRequest]
    /\ di_pc = "idle"
    /\ di_in = NoDetection
    /\ di_avail = <<>>
    /\ di_calls = <<>>
    /\ di_out = NoResult

\* chat.group_list of the configuration file: empty by default
DefaultGroupList ==
    /\ group_list0 = <<>>
    /\ group_list = group_list0
    /\ config_file = group_list0

\* the default configuration: token = "", prompt_injection.enable = False
Init ==
    /\ token = <<>>
    /\ pi_enable = FALSE
    /\ DefaultGroupList
    /\ InitState

\* any configured token, detection on or off
InitAuth ==
    /\ token \in Tokens
    /\ pi_enable \in BOOLEAN
    /\ DefaultGroupList
    /\ InitState

(***************************************************************************)
(* napcat_server: the listener binds and serves.                           *)
(***************************************************************************)
NapcatServe ==
    /\ websocket_server = "none"
    /\ sup_pc = "start"
    /\ gs_pc # "done"
    /\ websocket_server' = "serving"
    /\ sup_pc' = "serving"
    /\ sup_snapshot' = cfg_version
    /\ bound' = bound \cup {cfg_version}
    /\ ws_snap' = cfg_version
    /\ UNCHANGED <<restart_event, cfg_pc, cfg_version, auxvars, poolvars, httpvars, detvars, sendvars, shutvars, token, pi_enable,
                   conn, request, handles, notice_tasks,
                   message_queue, pending_messages, processing_messages,
                   shutdown_requested, mp_pc, mp_item, gs_pc, waited_time,
                   nrecv, response_pool, log, dispatched>>

(***************************************************************************)
(* A client connects.  process_request = check_napcat_server_token decides *)
(* the handshake; an accepted connection starts message_recv, which        *)
(* publishes the connection (lines 32-39) and then waits for a frame.      *)
(***************************************************************************)
Handshake(c, req) ==
    /\ websocket_server = "serving"
    /\ conn[c] = "idle"
    /\ \A d \in Conns : d < c => conn[d] # "idle"
    /\ request' = [request EXCEPT ![c] = req]
    /\ IF check_napcat_server_token(token, req) # None
       THEN /\ conn' = [conn EXCEPT ![c] = "rejected"]
            /\ UNCHANGED <<handles, notice_tasks>>
       ELSE /\ conn' = [conn EXCEPT ![c] = "open"]
            /\ handles' = [p \in Producers |->
                              IF p \in {"message_handler", "nc_message_sender"}
                                 \/ (p = "detector" /\ pi_enable)
                              THEN c
                              ELSE handles[p]]
            /\ notice_tasks' = Append(notice_tasks, c)
    /\ LET created == /\ ~detector_set
                      /\ pi_enable
                      /\ check_napcat_server_token(token, req) = None
       IN  /\ detector_set' = (detector_set \/ created)
           /\ released' = IF created THEN [released EXCEPT !["detector"] = 0]
                                     ELSE released
    /\ UNCHANGED <<supvars, auxvars, poolvars, httpvars, detvars, sendvars, td_steps, gs_run, http_running, token, pi_enable, websocket_server, message_queue,
                   pending_messages, processing_messages, shutdown_requested,
                   mp_pc, mp_item, gs_pc, waited_time, nrecv, response_pool, log,
                   dispatched>>

\* the task created at line 33 runs: notice_handler.set_server_connection
NoticeSetConnection ==
    /\ notice_tasks # <<>>
    /\ handles' = [handles EXCEPT !["notice_handler"] = Head(notice_tasks)]
    /\ notice_tasks' = Tail(notice_tasks)
    /\ UNCHANGED <<supvars, auxvars, poolvars, httpvars, detvars, sendvars, shutvars, token, pi_enable, websocket_server, conn, request,
                   message_queue, pending_messages, processing_messages,
                   shutdown_requested, mp_pc, mp_item, gs_pc, waited_time,
                   nrecv, response_pool, log, dispatched>>

(***************************************************************************)
(* message_recv, one iteration of "async for raw_message in connection".   *)
(***************************************************************************)
RecvFrame(c, raw) ==
    /\ conn[c] = "open"
    /\ nrecv < MaxFrames
    /\ nrecv' = nrecv + 1
    /\ LET id == nrecv + 1
           decoded == JsonLoads(raw)
           route == RecvBranch(raw, shutdown_requested)
       IN  /\ log' = Append(log, [id |-> id, raw |-> raw, route |-> route])
           /\ conn' = [conn EXCEPT ![c] =
                          IF route = "break" THEN "stopped"
                          ELSE IF route = "error" THEN "failed"
                          ELSE "open"]
           /\ IF route = "queue"
              THEN /\ message_queue' =
                        Append(message_queue, [id |-> id, msg |-> decoded[1]])
                   /\ pending_messages' = pending_messages + 1
              ELSE UNCHANGED <<message_queue, pending_messages>>
           /\ response_pool' =
                 IF route = "pool"
                 THEN Append(response_pool, [id |-> id, msg |-> decoded[1]])
                 ELSE response_pool
           /\ IF route = "pool"
              THEN /\ pool' = put_response(pool, decoded[1]).pool
                   /\ replies' = replies \o
                         [i \in 1 .. Len(put_response(pool, decoded[1]).resolved) |->
                            LET p == put_response(pool, decoded[1]).resolved[i]
                            IN  [token |-> p.token, deadline |-> p.deadline, at |-> now,
                                 kind |-> "payload",
                                 result |-> SendResult("payload", id)]]
              ELSE UNCHANGED <<pool, replies>>
    /\ UNCHANGED <<now, next_sweep, httpvars, detvars>>
    /\ UNCHANGED <<supvars, auxvars, sendvars, shutvars, token, pi_enable, websocket_server, request, handles,
                   notice_tasks, processing_messages, shutdown_requested,
                   mp_pc, mp_item, gs_pc, waited_time, dispatched>>

\* the peer closes the connection: the async for ends, message_recv returns
PeerClose(c) ==
    /\ conn[c] = "open"
    /\ conn' = [conn EXCEPT ![c] = "closed"]
    /\ UNCHANGED <<supvars, auxvars, poolvars, httpvars, detvars, sendvars, shutvars, token, pi_enable, websocket_server, request, handles,
                   notice_tasks, message_queue, pending_messages,
                   processing_messages, shutdown_requested, mp_pc, mp_item,
                   gs_pc, waited_time, nrecv, response_pool, log, dispatched>>

(***************************************************************************)
(* message_process.                                                        *)
(*   "loop"     at the top of while True (after the sleep or a timeout)    *)
(*   "waiting"  in wait_for(message_queue.get(), 0.1)                      *)
(*   "handling" inside the handler of mp_item                              *)
(*   "exited"   left the loop by break                                     *)
(*   "crashed"  a handler raised                                           *)
(*   "cancelled"                                                           *)
(***************************************************************************)
MPLoopCheck ==
    /\ mp_pc = "loop"
    /\ mp_pc' = IF shutdown_requested /\ pending_messages = 0 /\ processing_messages = 0
                THEN "exited"
                ELSE "waiting"
    /\ UNCHANGED <<supvars, auxvars, poolvars, httpvars, detvars, sendvars, shutvars, token, pi_enable, websocket_server, conn, request, handles,
                   notice_tasks, message_queue, pending_messages,
                   processing_messages, shutdown_requested, mp_item, gs_pc,
                   waited_time, nrecv, response_pool, log, dispatched>>

MPGetTimeout ==
    /\ mp_pc = "waiting"
    /\ message_queue = <<>>
    /\ mp_pc' = "loop"
    /\ UNCHANGED <<supvars, auxvars, poolvars, httpvars, detvars, sendvars, shutvars, token, pi_enable, websocket_server, conn, request, handles,
                   notice_tasks, message_queue, pending_messages,
                   processing_messages, shutdown_requested, mp_item, gs_pc,
                   waited_time, nrecv, response_pool, log, dispatched>>

\* variant: the newest item is taken instead of the oldest
MPGetLIFO ==
    /\ mp_pc = "waiting"
    /\ message_queue # <<>>
    /\ LET message == message_queue[Len(message_queue)]
           handler == HandlerFor(message.msg)
       IN  /\ message_queue' = SubSeq(message_queue, 1, Len(message_queue) - 1)
           /\ mp_item' = Some(message)
           /\ mp_pc' = "handling"
           /\ dispatched' = Append(dispatched, [id |-> message.id, handler |-> handler])
           /\ processing_messages' =
                 IF handler = "message_handler"
                 THEN processing_messages + 1
                 ELSE processing_messages
    /\ UNCHANGED <<supvars, auxvars, poolvars, httpvars, detvars, sendvars, shutvars, token, pi_enable, websocket_server, conn, request, handles,
                   notice_tasks, pending_messages, shutdown_requested, gs_pc,
                   waited_time, nrecv, response_pool, log>>

\* message_queue.get() returns the front item and the handler for its
\* post_type is entered (processing_messages counts only "message")
MPGet ==
    /\ mp_pc = "waiting"
    /\ message_queue # <<>>
    /\ LET message == Head(message_queue)
           handler == HandlerFor(message.msg)
       IN  /\ message_queue' = Tail(message_queue)
           /\ IF handler = "none"
              THEN \* unknown post_type: logged, task_done, sleep
                   /\ mp_item' = <<>>
                   /\ mp_pc' = "loop"
                   /\ UNCHANGED <<dispatched, processing_messages>>
              ELSE /\ mp_item' = Some(message)
                   /\ mp_pc' = "handling"
                   /\ dispatched' = Append(dispatched, [id |-> message.id, handler |-> handler])
                   /\ processing_messages' =
                         IF handler = "message_handler"
                         THEN processing_messages + 1
                         ELSE processing_messages
    /\ UNCHANGED <<supvars, auxvars, poolvars, httpvars, detvars, sendvars, shutvars, token, pi_enable, websocket_server, conn, request, handles,
                   notice_tasks, pending_messages, shutdown_requested, gs_pc,
                   waited_time, nrecv, response_pool, log>>

\* variant: the counter is decremented after every handler
MPHandlerReturnAlwaysDecrements ==
    /\ mp_pc = "handling"
    /\ processing_messages' = processing_messages - 1
    /\ mp_item' = <<>>
    /\ mp_pc' = "loop"
    /\ UNCHANGED <<supvars, auxvars, poolvars, httpvars, detvars, sendvars, shutvars, token, pi_enable, websocket_server, conn, request, handles,
                   notice_tasks, message_queue, pending_messages,
                   shutdown_requested, gs_pc, waited_time, nrecv, response_pool, log, dispatched>>

\* the handler returns: counter restored, task_done, sleep(0.05)
MPHandlerReturn ==
    /\ mp_pc = "handling"
    /\ processing_messages' =
          IF HandlerFor(mp_item[1].msg) = "message_handler"
          THEN processing_messages - 1
          ELSE processing_messages
    /\ mp_item' = <<>>
    /\ mp_pc' = "loop"
    /\ UNCHANGED <<supvars, auxvars, poolvars, httpvars, detvars, sendvars, shutvars, token, pi_enable, websocket_server, conn, request, handles,
                   notice_tasks, message_queue, pending_messages,
                   shutdown_requested, gs_pc, waited_time, nrecv, response_pool, log, dispatched>>

\* the handler raises: nothing in message_process catches it
MPHandlerRaise ==
    /\ mp_pc = "handling"
    /\ mp_pc' = "crashed"
    /\ UNCHANGED <<supvars, auxvars, poolvars, httpvars, detvars, sendvars, shutvars, token, pi_enable, websocket_server, conn, request, handles,
                   notice_tasks, message_queue, pending_messages,
                   processing_messages, shutdown_requested, mp_item, gs_pc,
                   waited_time, nrecv, response_pool, log, dispatched>>

(***************************************************************************)
(* graceful_shutdown.                                                      *)
(*   "idle" not called; "wait" in the drain loop; then the teardown steps  *)
(*   "cleanup_detector", "http_stop", "ws_close", "mmc_stop",              *)
(*   "cancel_tasks"; "done".                                               *)
(***************************************************************************)
TeardownPCs == {"cleanup_detector", "http_stop", "ws_close", "mmc_stop", "cancel_tasks"}

\* lines 217-225: the shutdown flag is set
RequestShutdown ==
    /\ gs_pc = "idle"
    /\ shutdown_requested' = TRUE
    /\ waited_time' = 0
    /\ gs_pc' = "wait"
    /\ gs_run' = gs_run + 1
    /\ td_steps' = <<>>
    /\ UNCHANGED <<supvars, auxvars, poolvars, httpvars, detvars, sendvars, detector_set, http_running, released,
                   token, pi_enable, websocket_server, conn, request, handles,
                   notice_tasks, message_queue, pending_messages,
                   processing_messages, mp_pc, mp_item, nrecv, response_pool, log, dispatched>>

\* graceful_shutdown is called again after it has returned
RequestShutdownAgain ==
    /\ gs_pc = "done"
    /\ gs_run < MaxShutdownCalls
    /\ shutdown_requested' = TRUE
    /\ waited_time' = 0
    /\ gs_pc' = "wait"
    /\ gs_run' = gs_run + 1
    /\ td_steps' = <<>>
    /\ UNCHANGED <<supvars, auxvars, poolvars, httpvars, detvars, sendvars, detector_set, http_running, released,
                   token, pi_enable, websocket_server, conn, request, handles,
                   notice_tasks, message_queue, pending_messages,
                   processing_messages, mp_pc, mp_item, nrecv, response_pool, log, dispatched>>

\* variant: the drain loop is left at once
GSWaitNoDrain ==
    /\ gs_pc = "wait"
    /\ gs_pc' = TeardownOrder[1]
    /\ UNCHANGED <<supvars, auxvars, poolvars, httpvars, detvars, sendvars, shutvars, token, pi_enable, websocket_server, conn, request, handles,
                   notice_tasks, message_queue, pending_messages,
                   processing_messages, shutdown_requested, mp_pc, mp_item,
                   waited_time, nrecv, response_pool, log, dispatched>>

\* one iteration of the drain loop, lines 234-247
GSWait ==
    /\ gs_pc = "wait"
    /\ IF pending_messages = 0 /\ processing_messages = 0
       THEN gs_pc' = TeardownOrder[1] /\ UNCHANGED waited_time
       ELSE IF waited_time >= MaxWaitTicks
            THEN gs_pc' = TeardownOrder[1] /\ UNCHANGED waited_time
            ELSE gs_pc' = "wait" /\ waited_time' = waited_time + 1
    /\ UNCHANGED <<supvars, auxvars, poolvars, httpvars, detvars, sendvars, shutvars, token, pi_enable, websocket_server, conn, request, handles,
                   notice_tasks, message_queue, pending_messages,
                   processing_messages, shutdown_requested, mp_pc, mp_item,
                   nrecv, response_pool, log, dispatched>>

\* a teardown step is over: it is recorded and graceful_shutdown moves on
GSStep(step, outcome) ==
    /\ gs_pc = step
    /\ gs_pc' = AfterStep(step, outcome)
    /\ td_steps' = Append(td_steps, [step |-> step, outcome |-> outcome])
    /\ UNCHANGED <<auxvars, poolvars, httpvars, detvars, sendvars, gs_run, token, pi_enable, request, handles,
                   message_queue, pending_messages, processing_messages,
                   shutdown_requested, mp_item, waited_time, nrecv, response_pool,
                   log, dispatched>>

\* step 1, cleanup_detector: with a detector its close() is awaited and,
\* when that returns, _global_detector is set to None
GSCleanupDetector(outcome) ==
    /\ IF detector_set
       THEN /\ GSStep("cleanup_detector", outcome)
            /\ detector_set' = (outcome # "ok")
            /\ released' = [released EXCEPT !["detector"] =
                               IF outcome = "ok" THEN @ + 1 ELSE @]
       ELSE /\ outcome = "ok"
            /\ GSStep("cleanup_detector", "skip")
            /\ UNCHANGED <<detector_set, released>>
    /\ UNCHANGED <<supvars, http_running, websocket_server, conn, notice_tasks, mp_pc>>

\* step 2, http_api_server.stop(): nothing when it is not running; else
\* _running = False, then shutdown() and server_close()
GSHttpStop(outcome) ==
    /\ IF HttpStopNeeded(http_running)
       THEN /\ GSStep("http_stop", outcome)
            /\ http_running' = FALSE
            /\ released' = [released EXCEPT !["http"] =
                               IF outcome = "ok" THEN @ + 1 ELSE @]
       ELSE /\ outcome = "ok"
            /\ GSStep("http_stop", "skip")
            /\ UNCHANGED <<http_running, released>>
    /\ UNCHANGED <<supvars, detector_set, websocket_server, conn, notice_tasks, mp_pc>>

\* step 3: with a listener in websocket_server, close() closes it and its
\* connections (nothing when it is closed already) and wait_closed() is
\* awaited
GSCloseWebsocket(outcome) ==
    /\ IF websocket_server = "none"
       THEN /\ outcome = "ok"
            /\ GSStep("ws_close", "skip")
            /\ UNCHANGED <<websocket_server, bound, conn, released>>
       ELSE /\ GSStep("ws_close", outcome)
            /\ IF websocket_server = "serving"
               THEN /\ websocket_server' = "closed"
                    /\ bound' = CloseListener(bound, ws_snap)
                    /\ conn' = [c \in Conns |->
                                   IF conn[c] = "open" THEN "closed" ELSE conn[c]]
                    /\ released' = [released EXCEPT !["listener"] = @ + 1]
               ELSE UNCHANGED <<websocket_server, bound, conn, released>>
    /\ UNCHANGED <<sup_pc, sup_snapshot, restart_event, cfg_pc, cfg_version, ws_snap,
                   detector_set, http_running, notice_tasks, mp_pc>>

\* step 4: mmc_stop_com() under wait_for
GSMmcStop(outcome) ==
    /\ GSStep("mmc_stop", outcome)
    /\ UNCHANGED <<supvars, detector_set, http_running, released, websocket_server,
                   conn, notice_tasks, mp_pc>>

\* step 5: every task that is not done is cancelled and gathered under
\* wait_for
GSCancelTasks(outcome) ==
    /\ GSStep("cancel_tasks", outcome)
    /\ mp_pc' = IF mp_pc \in {"loop", "waiting", "handling"} THEN "cancelled" ELSE mp_pc
    /\ notice_tasks' = <<>>
    /\ websocket_server' = IF websocket_server = "serving" THEN "closed" ELSE websocket_server
    /\ bound' = IF websocket_server = "serving" THEN CloseListener(bound, ws_snap) ELSE bound
    /\ released' = [released EXCEPT !["listener"] =
                       IF websocket_server = "serving" THEN @ + 1 ELSE @]
    /\ conn' = [c \in Conns |-> IF conn[c] = "open" THEN "closed" ELSE conn[c]]
    /\ sup_pc' = IF sup_pc \in {"start", "binding", "serving", "check", "sleep"}
                 THEN "stopped_cancel" ELSE sup_pc
    /\ cfg_pc' = "idle"
    /\ UNCHANGED <<sup_snapshot, restart_event, cfg_version, ws_snap, detector_set,
                   http_running>>

\* main() starts the HTTP endpoint: http_api_server.start sets _running
HttpStart ==
    /\ gs_pc = "idle"
    /\ ~http_running
    /\ http_running' = TRUE
    /\ UNCHANGED <<supvars, auxvars, poolvars, httpvars, detvars, sendvars, td_steps, gs_run, detector_set, released,
                   cfgvars, pipevars, gsvars, websocket_server, conn, request,
                   handles, notice_tasks>>

(***************************************************************************)
(* napcat_with_restart: the loop that runs napcat_server and starts it     *)
(* again when restart_event is set.                                        *)
(***************************************************************************)
\* the head of the loop: restart_event.clear(), then napcat_server() reads
\* the host and port of the current configuration
SupStart ==
    /\ sup_pc = "start"
    /\ gs_pc # "done"
    /\ restart_event' = FALSE
    /\ sup_snapshot' = cfg_version
    /\ sup_pc' = "binding"
    /\ UNCHANGED <<cfg_pc, cfg_version, bound, ws_snap, auxvars, poolvars, httpvars, detvars, sendvars, shutvars, cfgvars, pipevars,
                   gsvars, websocket_server, conn, request, handles, notice_tasks>>

\* Server.serve binds; websocket_server = server; serve_forever is awaited
SupBound ==
    /\ sup_pc = "binding"
    /\ bound' = bound \cup {sup_snapshot}
    /\ ws_snap' = sup_snapshot
    /\ websocket_server' = "serving"
    /\ sup_pc' = "serving"
    /\ UNCHANGED <<sup_snapshot, restart_event, cfg_pc, cfg_version, auxvars, poolvars, httpvars, detvars, sendvars, shutvars, cfgvars,
                   pipevars, gsvars, conn, request, handles, notice_tasks>>

\* a bind failure that is tried again after the delay
SupBindFailRetries ==
    /\ sup_pc = "binding"
    /\ sup_pc' = "sleep"
    /\ UNCHANGED <<sup_snapshot, restart_event, cfg_pc, cfg_version, bound, ws_snap,
                   auxvars, poolvars, httpvars, detvars, sendvars, shutvars, cfgvars, pipevars, gsvars, websocket_server, conn,
                   request, handles, notice_tasks>>

\* Server.serve raises OSError: napcat_server re-raises it and the loop
\* logs it under `except Exception` and breaks
SupBindFail ==
    /\ sup_pc = "binding"
    /\ sup_pc' = "stopped_error"
    /\ UNCHANGED <<sup_snapshot, restart_event, cfg_pc, cfg_version, bound, ws_snap,
                   auxvars, poolvars, httpvars, detvars, sendvars, shutvars, cfgvars, pipevars, gsvars, websocket_server, conn,
                   request, handles, notice_tasks>>

\* the listener was closed and serve_forever ends with CancelledError:
\* the `async with` exits, napcat_server re-raises, the loop breaks
SupServeCancelled ==
    /\ sup_pc = "serving"
    /\ websocket_server = "closed"
    /\ bound' = CloseListener(bound, ws_snap)
    /\ sup_pc' = "stopped_cancel"
    /\ UNCHANGED <<sup_snapshot, restart_event, cfg_pc, cfg_version, ws_snap, auxvars, poolvars, httpvars, detvars, sendvars, shutvars,
                   cfgvars, pipevars, gsvars, websocket_server, conn, request,
                   handles, notice_tasks>>

\* the listener was closed and napcat_server returns
SupServeReturns ==
    /\ sup_pc = "serving"
    /\ websocket_server = "closed"
    /\ bound' = CloseListener(bound, ws_snap)
    /\ sup_pc' = "check"
    /\ UNCHANGED <<sup_snapshot, restart_event, cfg_pc, cfg_version, ws_snap, auxvars, poolvars, httpvars, detvars, sendvars, shutvars,
                   cfgvars, pipevars, gsvars, websocket_server, conn, request,
                   handles, notice_tasks>>

\* `if not restart_event.is_set(): break`, else the one second delay starts
SupCheck ==
    /\ sup_pc = "check"
    /\ sup_pc' = IF restart_event THEN "sleep" ELSE "stopped_noevent"
    /\ UNCHANGED <<sup_snapshot, restart_event, cfg_pc, cfg_version, bound, ws_snap,
                   auxvars, poolvars, httpvars, detvars, sendvars, shutvars, cfgvars, pipevars, gsvars, websocket_server, conn,
                   request, handles, notice_tasks>>

\* asyncio.sleep(1) is over
SupSleepDone ==
    /\ sup_pc = "sleep"
    /\ sup_pc' = "start"
    /\ UNCHANGED <<sup_snapshot, restart_event, cfg_pc, cfg_version, bound, ws_snap,
                   auxvars, poolvars, httpvars, detvars, sendvars, shutvars, cfgvars, pipevars, gsvars, websocket_server, conn,
                   request, handles, notice_tasks>>

(***************************************************************************)
(* on_napcat_config_change: the callback of a change to the napcat_server  *)
(* section of the configuration.                                           *)
(***************************************************************************)
\* a callback that also empties the work queue
ConfigChangeDropsQueue ==
    /\ cfg_pc = "idle"
    /\ gs_pc # "done"
    /\ cfg_version < MaxConfigChanges
    /\ cfg_version' = cfg_version + 1
    /\ message_queue' = <<>>
    /\ IF websocket_server # "none"
       THEN /\ websocket_server' = "closed"
            /\ bound' = CloseListener(bound, ws_snap)
            /\ conn' = [c \in Conns |-> IF conn[c] = "open" THEN "closed" ELSE conn[c]]
            /\ cfg_pc' = "wait_closed"
            /\ UNCHANGED restart_event
       ELSE /\ restart_event' = TRUE
            /\ UNCHANGED <<websocket_server, bound, conn, cfg_pc>>
    /\ UNCHANGED <<sup_pc, sup_snapshot, ws_snap, auxvars, poolvars, httpvars, detvars, sendvars, shutvars, cfgvars, gsvars, request,
                   handles, notice_tasks, pending_messages, processing_messages,
                   mp_pc, mp_item, nrecv, response_pool, log, dispatched>>

\* the configuration changes and the callback starts: with a listener in
\* websocket_server it closes it and awaits wait_closed(); without one it
\* goes straight to restart_event.set()
ConfigChange ==
    /\ cfg_pc = "idle"
    /\ gs_pc # "done"
    /\ cfg_version < MaxConfigChanges
    /\ cfg_version' = cfg_version + 1
    /\ IF websocket_server # "none"
       THEN /\ websocket_server' = "closed"
            /\ bound' = CloseListener(bound, ws_snap)
            /\ conn' = [c \in Conns |-> IF conn[c] = "open" THEN "closed" ELSE conn[c]]
            /\ cfg_pc' = "wait_closed"
            /\ UNCHANGED restart_event
       ELSE /\ restart_event' = TRUE
            /\ UNCHANGED <<websocket_server, bound, conn, cfg_pc>>
    /\ UNCHANGED <<sup_pc, sup_snapshot, ws_snap, auxvars, poolvars, httpvars, detvars, sendvars, shutvars, cfgvars, pipevars, gsvars,
                   request, handles, notice_tasks>>

\* wait_closed() returns; napcat_task is None, so nothing is cancelled;
\* restart_event.set()
CfgWaitClosedDone ==
    /\ cfg_pc = "wait_closed"
    /\ cfg_pc' = "idle"
    /\ restart_event' = TRUE
    /\ sup_pc' = IF napcat_task # None THEN "stopped_cancel" ELSE sup_pc
    /\ UNCHANGED <<sup_snapshot, cfg_version, bound, ws_snap, auxvars, poolvars, httpvars, detvars, sendvars, shutvars, cfgvars,
                   pipevars, gsvars, websocket_server, conn, request, handles,
                   notice_tasks>>

(***************************************************************************)
(* The detector sends a request to the front end.                          *)
(***************************************************************************)
DetectorSend ==
    /\ pi_enable
    /\ Len(sends) < MaxSends
    /\ LET h == handles["detector"]
           st == IF h = 0 THEN "none" ELSE conn[h]
       IN  /\ sends' = Append(sends, [handle |-> h, state |-> st,
                                      outcome |-> SendOutcome(h, st)])
           /\ pool' = IF SendOutcome(h, st) = "awaiting_response"
                      THEN get_response(pool, Len(sends) + 1, now)
                      ELSE pool
    /\ UNCHANGED <<now, next_sweep, replies, httpvars, detvars>>
    /\ UNCHANGED <<supvars, exit_code, sendvars, shutvars, cfgvars, pipevars, gsvars, websocket_server,
                   conn, request, handles, notice_tasks>>

(***************************************************************************)
(* APIHandler._handle_update_group_list on the thread of its request.      *)
(***************************************************************************)
\* the request arrives on a new thread, which reads the list and decides
HttpRequest(t, req) ==
    /\ http_running
    /\ th[t].pc = "new"
    /\ \A u \in Threads : u < t => th[u].pc # "new"
    /\ LET d == UpdateDecision(group_list, req)
       IN  th' = [th EXCEPT ![t] =
                    [pc |-> IF d.changed THEN "assign" ELSE "done",
                     req |-> req, list |-> d.list,
                     status |-> IF d.changed THEN 0 ELSE d.status,
                     before |-> group_list,
                     after |-> IF d.changed THEN <<>> ELSE group_list]]
    /\ UNCHANGED <<group_list0, group_list, config_file, detvars, poolvars, supvars,
                   auxvars, sendvars, shutvars, cfgvars, pipevars, gsvars,
                   websocket_server, conn, request, handles, notice_tasks>>

\* the request arrives when no other request is being handled
HttpRequestAlone(t, req) ==
    /\ \A u \in Threads : th[u].pc \in {"new", "done"}
    /\ HttpRequest(t, req)

\* global_config.chat.group_list = current_list
HttpAssign(t) ==
    /\ th[t].pc = "assign"
    /\ group_list' = th[t].list
    /\ th' = [th EXCEPT ![t].pc = "save"]
    /\ UNCHANGED <<group_list0, config_file, detvars, poolvars, supvars,
                   auxvars, sendvars, shutvars, cfgvars, pipevars, gsvars,
                   websocket_server, conn, request, handles, notice_tasks>>

\* _save_config writes the list of global_config into config.toml and the
\* response is 200, or it raises and the response is 500
HttpSave(t, saved) ==
    /\ th[t].pc = "save"
    /\ config_file' = IF saved THEN group_list ELSE config_file
    /\ th' = [th EXCEPT ![t].pc = "done",
                        ![t].status = IF saved THEN 200 ELSE 500,
                        ![t].after = group_list]
    /\ UNCHANGED <<group_list0, group_list, detvars, poolvars, supvars,
                   auxvars, sendvars, shutvars, cfgvars, pipevars, gsvars,
                   websocket_server, conn, request, handles, notice_tasks>>

(***************************************************************************)
(* PromptInjectionDetector.detect_injection.                               *)
(***************************************************************************)
\* the call: the returns before the loop, or available_models is a copy of
\* config.models
DiCall(enable, api_key, len, models) ==
    /\ di_pc = "idle"
    /\ LET in == [enable |-> enable, api_key |-> api_key, len |-> len,
                  models |-> models]
       IN  /\ di_in' = in
           /\ IF Precheck(in) = "detect"
              THEN /\ di_pc' = "loop"
                   /\ di_avail' = models
                   /\ UNCHANGED di_out
              ELSE /\ di_pc' = "returned"
                   /\ di_out' = [kind |-> Precheck(in), model |-> "",
                                 is_injection |-> FALSE]
                   /\ UNCHANGED di_avail
    /\ UNCHANGED <<di_calls, httpvars, poolvars, supvars,
                   auxvars, sendvars, shutvars, cfgvars, pipevars, gsvars,
                   websocket_server, conn, request, handles, notice_tasks>>

\* one pass of the loop: available_models.pop(0) and _call_api
DiAttempt(outcome, is_injection) ==
    /\ di_pc = "loop"
    /\ di_avail # <<>>
    /\ LET model == Head(di_avail)
       IN  /\ di_avail' = Tail(di_avail)
           /\ di_calls' = Append(di_calls, [model |-> model, outcome |-> outcome])
           /\ CASE outcome = "success" ->
                      /\ di_pc' = "returned"
                      /\ di_out' = [kind |-> "data", model |-> model,
                                    is_injection |-> is_injection]
                 [] outcome = "fail" ->
                      /\ UNCHANGED <<di_pc, di_out>>
                 [] outcome = "raise" ->
                      /\ di_pc' = "returned"
                      /\ di_out' = [kind |-> "exception", model |-> "",
                                    is_injection |-> FALSE]
    /\ UNCHANGED <<di_in, httpvars, poolvars, supvars,
                   auxvars, sendvars, shutvars, cfgvars, pipevars, gsvars,
                   websocket_server, conn, request, handles, notice_tasks>>

\* the loop is over without a success
DiExhausted ==
    /\ di_pc = "loop"
    /\ di_avail = <<>>
    /\ di_pc' = "returned"
    /\ di_out' = AllFailed
    /\ UNCHANGED <<di_in, di_avail, di_calls, httpvars, poolvars, supvars,
                   auxvars, sendvars, shutvars, cfgvars, pipevars, gsvars,
                   websocket_server, conn, request, handles, notice_tasks>>

(***************************************************************************)
(* check_timeout_response and the clock.                                   *)
(***************************************************************************)
\* time passes, up to the next sweep
PoolTick ==
    /\ now < MaxClock
    /\ now < next_sweep
    /\ now' = now + 1
    /\ UNCHANGED <<next_sweep, pool, replies, httpvars, detvars, supvars, auxvars, sendvars, shutvars,
                   cfgvars, pipevars, gsvars, websocket_server, conn, request,
                   handles, notice_tasks>>

\* the sweeper runs: every request past its deadline gets Timeout
PoolSweep ==
    /\ now = next_sweep
    /\ next_sweep' = now + SweepInterval
    /\ pool' = pool \ Expired(pool, now)
    /\ LET RECURSIVE Results(_)
           Results(ps) ==
               IF ps = {} THEN <<>>
               ELSE LET p == CHOOSE q \in ps : \A o \in ps : q.token <= o.token
                    IN  <<[token |-> p.token, deadline |-> p.deadline, at |-> now,
                           kind |-> "Timeout", result |-> SendResult("Timeout", 0)]>>
                        \o Results(ps \ {p})
       IN  replies' = replies \o Results(Expired(pool, now))
    /\ UNCHANGED <<now, httpvars, detvars, supvars, auxvars, sendvars, shutvars, cfgvars, pipevars,
                   gsvars, websocket_server, conn, request, handles, notice_tasks>>

(***************************************************************************)
(* __main__: after graceful_shutdown the finally clause ends the process.  *)
(***************************************************************************)
\* the exception main() ended with
MainOutcome == IF mp_pc = "crashed" THEN "Exception" ELSE "KeyboardInterrupt"

ProcessExit ==
    /\ gs_pc = "done"
    /\ exit_code = None
    /\ exit_code' = Some(ExitStatus(MainOutcome))
    /\ UNCHANGED <<supvars, sends, poolvars, httpvars, detvars, sendvars, shutvars, cfgvars, pipevars, gsvars, websocket_server, conn,
                   request, handles, notice_tasks>>

(***************************************************************************)
(* MessageSending.message_send, one call.                                  *)
(*   "detect"  in detector.detect_injection                                *)
(*   "warn"    in detector.send_warning_to_user                            *)
(*   "report"  in detector.send_report_to_groups                           *)
(*   "route"   in maibot_router.send_message                               *)
(***************************************************************************)
\* everything but the call of message_send
nosendvars == <<supvars, auxvars, poolvars, httpvars, detvars, cfgvars, pipevars, gsvars, websocket_server, conn,
                request, handles, notice_tasks, td_steps, gs_run, http_running,
                released>>

\* the call starts: detection for a text-only message when it is enabled
MsCall(seg, private, sensitivity, size) ==
    /\ ms_pc = "idle"
    /\ ms_in' = [seg |-> seg, private |-> private, sensitivity |-> sensitivity,
                 size |-> size]
    /\ IF pi_enable /\ TextOnly(seg)
       THEN /\ ms_pc' = "detect"
            /\ detector_set' = TRUE
            /\ UNCHANGED ms_out
       ELSE /\ ms_pc' = SizeCheck(ms_out, size).pc
            /\ ms_out' = SizeCheck(ms_out, size).out
            /\ UNCHANGED detector_set
    /\ UNCHANGED nosendvars

\* detect_injection returns: a blocked message goes to the warning (private
\* chat) or to the report, any other to the size check
MsDetect(ok, risk_level) ==
    /\ ms_pc = "detect"
    /\ LET is_injection == detect_injection(ok, ms_in.sensitivity, risk_level)
           out == [ms_out EXCEPT !.risk = IF ok THEN risk_level ELSE "failed",
                                 !.blocked = is_injection]
       IN  IF is_injection
           THEN /\ ms_pc' = IF ms_in.private THEN "warn" ELSE "report"
                /\ ms_out' = out
           ELSE /\ ms_pc' = SizeCheck(out, ms_in.size).pc
                /\ ms_out' = SizeCheck(out, ms_in.size).out
    /\ UNCHANGED <<ms_in, detector_set, nosendvars>>

\* send_warning_to_user ends: with a response ("ok"), with the error dict of
\* _send_message_to_napcat ("error"), or server_connection.send raises and
\* the except clause of message_send returns False
MsWarn(outcome) ==
    /\ ms_pc = "warn"
    /\ IF outcome = "raise"
       THEN /\ ms_pc' = "returned"
            /\ ms_out' = [ms_out EXCEPT !.warned = TRUE, !.result = "False"]
       ELSE /\ ms_pc' = "report"
            /\ ms_out' = [ms_out EXCEPT !.warned = TRUE]
    /\ UNCHANGED <<ms_in, detector_set, nosendvars>>

\* send_report_to_groups ends: no report group ("none"), or as for the
\* warning; message_send returns False either way
MsReport(outcome) ==
    /\ ms_pc = "report"
    /\ ms_pc' = "returned"
    /\ ms_out' = [ms_out EXCEPT !.reported = TRUE, !.result = "False"]
    /\ UNCHANGED <<ms_in, detector_set, nosendvars>>

\* maibot_router.send_message ends: a true status is returned, a false one
\* raises RuntimeError, and that or any exception of the router ends in the
\* except clause, which returns False
MsRoute(send_status) ==
    /\ ms_pc = "route"
    /\ ms_pc' = "returned"
    /\ ms_out' = [ms_out EXCEPT !.forwarded = TRUE,
                                !.result = IF send_status = "True" THEN "True"
                                           ELSE "False"]
    /\ UNCHANGED <<ms_in, detector_set, nosendvars>>

Next ==
    \/ NapcatServe
    \/ \E c \in Conns : Handshake(c, {})
    \/ NoticeSetConnection
    \/ \E c \in Conns, raw \in RawFrames : RecvFrame(c, raw)
    \/ \E c \in Conns : PeerClose(c)
    \/ MPLoopCheck
    \/ MPGetTimeout
    \/ MPGet
    \/ MPHandlerReturn
    \/ MPHandlerRaise
    \/ RequestShutdown
    \/ GSWait
    \/ GSCleanupDetector("ok")
    \/ GSHttpStop("ok")
    \/ GSCloseWebsocket("ok")
    \/ GSMmcStop("ok")
    \/ GSCancelTasks("ok")

Spec == Init /\ [][Next]_vars

(***************************************************************************)
(* The handshake and the read loops alone, under every configuration and   *)
(* handshake request.                                                      *)
(***************************************************************************)
NextAuth ==
    \/ NapcatServe
    \/ \E c \in Conns, req \in Requests : Handshake(c, req)
    \/ NoticeSetConnection
    \/ \E c \in Conns, raw \in RawFrames : RecvFrame(c, raw)

SpecAuth == InitAuth /\ [][NextAuth]_vars

(***************************************************************************)
(* The read loops on frames with and without post_type and echo.           *)
(***************************************************************************)
\* decoded frames: an event, a response with an echo, and two frames with
\* neither post_type nor echo
ClassifyFrames ==
    {[ok |-> TRUE, obj |-> d] :
        d \in { {<<"post_type", "message">>},
                {<<"echo", "e1">>},
                {},
                {<<"status", "ok">>} }}

NextClassify ==
    \/ NapcatServe
    \/ \E c \in Conns : Handshake(c, {})
    \/ NoticeSetConnection
    \/ \E c \in Conns, raw \in ClassifyFrames : RecvFrame(c, raw)
    \/ \E c \in Conns : PeerClose(c)

SpecClassify == Init /\ [][NextClassify]_vars

(***************************************************************************)
(* The restart of the listener on configuration changes, with the ingress, *)
(* the dispatcher and the detector running.                                *)
(***************************************************************************)
\* the frames read while the listener is restarted: message events
RestartFrames == {[ok |-> TRUE, obj |-> {<<"post_type", "message">>}]}

\* prompt_injection.enable is set to true, the rest is the default
InitRestart ==
    /\ token = <<>>
    /\ pi_enable = TRUE
    /\ DefaultGroupList
    /\ InitState

NextRestart ==
    \/ SupStart
    \/ SupBound
    \/ SupBindFail
    \/ SupServeCancelled
    \/ SupServeReturns
    \/ SupCheck
    \/ SupSleepDone
    \/ ConfigChange
    \/ CfgWaitClosedDone
    \/ \E c \in Conns : Handshake(c, {})
    \/ NoticeSetConnection
    \/ \E c \in Conns, raw \in RestartFrames : RecvFrame(c, raw)
    \/ MPLoopCheck
    \/ MPGetTimeout
    \/ MPGet
    \/ MPHandlerReturn
    \/ DetectorSend

SpecRestart == InitRestart /\ [][NextRestart]_vars

(***************************************************************************)
(* The life of the process: the listener starts or fails to bind, an       *)
(* interrupt runs graceful_shutdown, the process exits.                    *)
(***************************************************************************)
NextExit ==
    \/ SupStart
    \/ SupBound
    \/ SupBindFail
    \/ SupServeCancelled
    \/ SupServeReturns
    \/ SupCheck
    \/ MPLoopCheck
    \/ MPGetTimeout
    \/ RequestShutdown
    \/ GSWait
    \/ GSCleanupDetector("ok")
    \/ GSHttpStop("ok")
    \/ GSCloseWebsocket("ok")
    \/ GSMmcStop("ok")
    \/ GSCancelTasks("ok")
    \/ ProcessExit

SpecExit == Init /\ [][NextExit]_vars

(***************************************************************************)
(* The detector's requests and the correlation pool: responses with the    *)
(* token of a request or with another one, the clock and the sweeper.      *)
(***************************************************************************)
\* response frames: no post_type, the echo of a request or of none
PoolFrames == {[ok |-> TRUE, obj |-> {<<"echo", k>>}] : k \in 1 .. MaxSends + 1}

NextPool ==
    \/ NapcatServe
    \/ \E c \in Conns : Handshake(c, {})
    \/ NoticeSetConnection
    \/ \E c \in Conns, raw \in PoolFrames : RecvFrame(c, raw)
    \/ DetectorSend
    \/ PoolTick
    \/ PoolSweep

SpecPool == InitRestart /\ [][NextPool]_vars

(***************************************************************************)
(* The HTTP endpoint with requests on concurrent threads, and with         *)
(* requests that arrive one after the other.                               *)
(***************************************************************************)
\* any duplicate-free group list in config.toml, the rest is the default
InitHttp ==
    /\ token = <<>>
    /\ pi_enable = FALSE
    /\ group_list0 \in DupFreeLists
    /\ group_list = group_list0
    /\ config_file = group_list0
    /\ InitState

NextHttp ==
    \/ HttpStart
    \/ \E t \in Threads, req \in HttpRequests : HttpRequest(t, req)
    \/ \E t \in Threads : HttpAssign(t)
    \/ \E t \in Threads, saved \in BOOLEAN : HttpSave(t, saved)

SpecHttp == InitHttp /\ [][NextHttp]_vars

NextHttpSeq ==
    \/ HttpStart
    \/ \E t \in Threads, req \in HttpRequests : HttpRequestAlone(t, req)
    \/ \E t \in Threads : HttpAssign(t)
    \/ \E t \in Threads, saved \in BOOLEAN : HttpSave(t, saved)

SpecHttpSeq == InitHttp /\ [][NextHttpSeq]_vars

(***************************************************************************)
(* detect_injection under every configuration, message length and outcome  *)
(* of the calls of the models.                                             *)
(***************************************************************************)
NextDetect ==
    \/ \E enable, api_key \in BOOLEAN, len \in StrippedLens, models \in ModelLists :
          DiCall(enable, api_key, len, models)
    \/ \E outcome \in CallOutcomes, is_injection \in BOOLEAN :
          DiAttempt(outcome, is_injection)
    \/ DiExhausted

SpecDetect == Init /\ [][NextDetect]_vars

(***************************************************************************)
(* graceful_shutdown with teardown steps that return, raise or never       *)
(* finish, called once or again after it has returned.                     *)
(***************************************************************************)
NextShutdown ==
    \/ NapcatServe
    \/ \E c \in Conns : Handshake(c, {})
    \/ NoticeSetConnection
    \/ HttpStart
    \/ RequestShutdown
    \/ RequestShutdownAgain
    \/ GSWait
    \/ \E outcome \in StepOutcomes : GSCleanupDetector(outcome)
    \/ \E outcome \in StepOutcomes : GSHttpStop(outcome)
    \/ \E outcome \in StepOutcomes : GSCloseWebsocket(outcome)
    \/ \E outcome \in StepOutcomes : GSMmcStop(outcome)
    \/ \E outcome \in StepOutcomes : GSCancelTasks(outcome)

SpecShutdown == InitRestart /\ [][NextShutdown]_vars

(***************************************************************************)
(* One call of message_send, for every message, configuration and outcome  *)
(* of the detector, of its sends and of the router.                        *)
(***************************************************************************)
\* how a send of the detector ends for its caller
WarnOutcomes == {"ok", "error", "raise"}

ReportOutcomes == {"none", "ok", "error", "raise"}

\* what maibot_router.send_message gives
RouterOutcomes == {"True", "False", "raise"}

NextSend ==
    \/ \E seg \in Segs, private \in BOOLEAN, sensitivity \in Sensitivities,
          size \in Sizes : MsCall(seg, private, sensitivity, size)
    \/ \E ok \in BOOLEAN, risk_level \in RiskLevels : MsDetect(ok, risk_level)
    \/ \E outcome \in WarnOutcomes : MsWarn(outcome)
    \/ \E outcome \in ReportOutcomes : MsReport(outcome)
    \/ \E send_status \in RouterOutcomes : MsRoute(send_status)

SpecSend == InitAuth /\ [][NextSend]_vars

(***************************************************************************)
(* Vocabulary of the properties.                                           *)
(***************************************************************************)
IdsOf(s) == [i \in 1 .. Len(s) |-> s[i].id]

IdSet(s) == {s[i].id : i \in 1 .. Len(s)}

\* the discriminator of a frame of the log
PostType(e) == DictGet(e.raw.obj, "post_type")

EventTypes == {Some("message"), Some("notice"), Some("meta_event")}

\* the frame was decoded (read before shutdown was seen, well-formed)
Decoded(e) == e.raw.ok /\ e.route # "break"

DecodedEvent(e) == Decoded(e) /\ PostType(e) \in EventTypes

\* the handler that belongs to a category
CategoryHandler(pt) ==
    CASE pt = Some("message") -> "message_handler"
      [] pt = Some("notice") -> "notice_handler"
      [] pt = Some("meta_event") -> "meta_event_handler"
      [] OTHER -> "none"

HandlerRunning == mp_pc = "handling"

AuthHeader(c) == DictGet(request[c], "Authorization")

C2_NoTeardownBeforeDrain ==
    gs_pc \in TeardownPCs \cup {"done"} =>
        \/ message_queue = <<>> /\ ~HandlerRunning
        \/ waited_time >= MaxWaitTicks

\* shutdown was issued with work outstanding and teardown has begun
C2_Witness ==
    /\ gs_pc = "cleanup_detector"
    /\ message_queue # <<>>
    /\ HandlerRunning

(***************************************************************************)
(* C3: once shutdown_requested is set, no step appends to the work queue.  *)
(***************************************************************************)
C3_NoEnqueueAfterShutdown ==
    [][shutdown_requested =>
          /\ Len(message_queue') <= Len(message_queue)
          /\ IdSet(message_queue') \subseteq IdSet(message_queue)]_vars

\* an event frame was read after the request while another connection is
\* still in its read loop
C3_Witness ==
    /\ shutdown_requested
    /\ \E i \in DOMAIN log :
          log[i].route = "break" /\ log[i].raw.ok /\ PostType(log[i]) \in EventTypes
    /\ \E c \in Conns : conn[c] = "open"

(***************************************************************************)
(* C4: pending_messages is the number of items enqueued and not yet popped *)
(* by the dispatcher, that is, the length of the queue.                    *)
(***************************************************************************)
C4_PendingCountsQueued == pending_messages = Len(message_queue)

(***************************************************************************)
(* C5: while a handler of any category is running, processing_messages is  *)
(* greater than zero (so processing_messages = 0 means no handler runs).   *)
(***************************************************************************)
C5_ProcessingWhileHandling == HandlerRunning => processing_messages > 0

(***************************************************************************)
(* C6: the drain wait is left (with the dispatcher alive) either because   *)
(* both counters are zero or, by the forced stop, with work still queued   *)
(* or in flight; it is never left by the forced stop once every queued     *)
(* item has been dispatched and every handler has returned.                *)
(***************************************************************************)
C6_ForcedStopOnlyWithWork ==
    [][(gs_pc = "wait" /\ gs_pc' # "wait" /\ mp_pc # "crashed") =>
          \/ pending_messages = 0 /\ processing_messages = 0
          \/ message_queue # <<>>
          \/ HandlerRunning]_vars

(***************************************************************************)
(* C7: the dispatcher has left its loop only after shutdown was requested  *)
(* with nothing left to do, and when it reaches the top of its loop with   *)
(* shutdown requested, the queue drained and no handler running, its exit  *)
(* condition is true (it leaves on its own).                               *)
(***************************************************************************)
C7_DispatcherExitsWhenDrained ==
    /\ mp_pc = "exited" => (shutdown_requested /\ message_queue = <<>>)
    /\ (mp_pc = "loop" /\ shutdown_requested /\ message_queue = <<>>)
          => (pending_messages = 0 /\ processing_messages = 0)

(***************************************************************************)
(* C8 as stated: with a non-empty token configured, a handshake is         *)
(* rejected exactly when its Authorization header is not "Bearer <token>". *)
(***************************************************************************)
C8_NonEmptyTokenChecked ==
    \A c \in Conns :
        (conn[c] # "idle" /\ token # <<>>) =>
            (conn[c] = "rejected" <=> AuthHeader(c) # Some(BearerOf(token)))

(***************************************************************************)
(* C8 amended: with a token that is not empty after stripping whitespace,  *)
(* a handshake is rejected exactly when its Authorization header is not    *)
(* "Bearer <token>", and a rejected attempt never runs message_recv: no    *)
(* producer holds it and no task to publish it exists.                     *)
(***************************************************************************)
C8_NonBlankTokenChecked ==
    \A c \in Conns :
        (conn[c] # "idle" /\ Strip(token) # <<>>) =>
            /\ conn[c] = "rejected" <=> AuthHeader(c) # Some(BearerOf(token))
            /\ conn[c] = "rejected" =>
                  /\ \A p \in Producers : handles[p] # c
                  /\ \A i \in DOMAIN notice_tasks : notice_tasks[i] # c

\* one attempt without the header was rejected, one with the matching
\* bearer value was accepted and has delivered a frame
C8_Witness ==
    /\ Strip(token) # <<>>
    /\ \E c, d \in Conns :
          /\ conn[c] = "rejected" /\ AuthHeader(c) = None
          /\ conn[d] = "open" /\ AuthHeader(d) = Some(BearerOf(token))
          /\ handles["message_handler"] = d
    /\ log # <<>>

(***************************************************************************)
(* C9: every decoded frame went where its post_type says and nowhere else: *)
(* message, notice and meta_event to the queue and not to the pool; no     *)
(* post_type to the pool and not to the queue; anything else to neither.   *)
(***************************************************************************)
C9_RoutedByDiscriminator ==
    \A i \in DOMAIN log :
        Decoded(log[i]) =>
            LET queued == log[i].id \in IdSet(dispatched) \cup IdSet(message_queue)
                pooled == log[i].id \in IdSet(response_pool)
            IN  CASE PostType(log[i]) \in EventTypes -> queued /\ ~pooled
                  [] PostType(log[i]) = None -> pooled /\ ~queued
                  [] OTHER -> ~queued /\ ~pooled

\* a response went to the pool and a frame of another post_type was dropped
C9_Witness ==
    \E i, j \in DOMAIN log :
        /\ Decoded(log[i]) /\ PostType(log[i]) = None
        /\ log[i].id \in IdSet(response_pool)
        /\ Decoded(log[j]) /\ PostType(log[j]) = Some("request")

(***************************************************************************)
(* C10: a frame that fails to decode does not end the read loop of its     *)
(* connection: no connection is ever stopped by a decode error.            *)
(***************************************************************************)
C10_ReadLoopSurvivesMalformed ==
    \A c \in Conns : conn[c] # "failed"

(***************************************************************************)
(* C11: when the handler invoked for a queue item raises, the failure is   *)
(* contained at that item: the dispatcher loop is never ended by the       *)
(* exception of a handler.                                                 *)
(***************************************************************************)
C11_HandlerFailureContained == mp_pc # "crashed"

\* the accepted connections
Accepted == {c \in Conns : conn[c] \notin {"idle", "rejected"}}

\* the producers main.py registers the connection with
RegisteredProducers == {p \in Producers : p # "detector" \/ pi_enable}

\* a notice is in its handler
NoticeInHandler ==
    /\ HandlerRunning
    /\ dispatched # <<>>
    /\ dispatched[Len(dispatched)].handler = "notice_handler"

(***************************************************************************)
(* C12: the handle of an accepted connection is stored in every registered *)
(* producer before the first frame of that connection is read, and no      *)
(* notice is in its handler while the notice handler holds the previous    *)
(* handle.  Stated for the first connection of the listener: while it is   *)
(* the only accepted connection every frame read so far is one of its      *)
(* frames, and the previous handle is None.                                *)
(***************************************************************************)
C12_PublishedBeforeFirstFrame ==
    \A c \in Conns :
        Accepted = {c} =>
            /\ log # <<>> => \A p \in RegisteredProducers : handles[p] = c
            /\ NoticeInHandler => handles["notice_handler"] = c

\* the connections in the read loop of message_recv
Readers == {c \in Conns : conn[c] = "open"}

(***************************************************************************)
(* C13: at most one front connection is in its read loop at any instant,   *)
(* and no producer holds the handle of a connection that is no longer open *)
(* while another connection is in its read loop.                           *)
(***************************************************************************)
C13_AtMostOneReader ==
    /\ Cardinality(Readers) <= 1
    /\ \A p \in Producers :
          (handles[p] # 0 /\ handles[p] \notin Readers) => Readers = {}

\* napcat_with_restart has left its loop because the listener it ran ended
SupervisorEnded == sup_pc \in {"stopped_cancel", "stopped_noevent"}

(***************************************************************************)
(* C14: after a configuration change has closed the listener, the          *)
(* supervisory loop starts the listener again: it never leaves its loop    *)
(* because the listener ended, neither when the listener ends by           *)
(* cancellation nor when the loop looks at the restart signal before the   *)
(* callback has set it.                                                    *)
(***************************************************************************)
C14_RestartAfterChange == ~SupervisorEnded

RestartStep ==
    \/ sup_pc' # sup_pc
    \/ cfg_pc' # cfg_pc
    \/ cfg_version' # cfg_version
    \/ restart_event' # restart_event
    \/ bound' # bound

StaleSend(e) == e.handle # 0 /\ e.state # "open"

C18_BindFailureStops ==
    [][/\ (sup_pc = "binding" /\ sup_pc' # sup_pc)
             => sup_pc' \in {"serving", "stopped_error"}
       /\ sup_pc = "stopped_error"
             => (sup_pc' = "stopped_error" /\ bound' = bound)]_vars

\* the loop stopped on a bind failure and a later change set the signal
C18_Witness ==
    /\ sup_pc = "stopped_error"
    /\ restart_event
    /\ bound = {}

(***************************************************************************)
(* C19: the process exits with a non-zero status when the listener failed  *)
(* to bind, and with status zero when it is shut down by an interrupt with *)
(* no such failure.                                                        *)
(***************************************************************************)
C19_ExitStatusTellsFailure ==
    exit_code # None =>
        IF sup_pc = "stopped_error" THEN exit_code # Some(0) ELSE exit_code = Some(0)

\* no callback is running and the supervisory loop has nothing left to do
Quiescent ==
    /\ cfg_pc = "idle"
    /\ \/ sup_pc = "serving" /\ websocket_server = "serving"
       \/ SupervisorEnded

(***************************************************************************)
(* C20: whatever the configuration changes and wherever they arrive, when  *)
(* they have stopped and the restart has come to rest exactly one listener *)
(* is bound, on the latest address.                                        *)
(***************************************************************************)
C20_OneListenerOnLatest ==
    (cfg_version > 0 /\ Quiescent) => bound = {cfg_version}

\* a call of napcat_server is in progress: the listener task runs
ListenerTaskRunning == sup_pc \in {"binding", "serving"}

(***************************************************************************)
(* C28: on a configuration change the running listener task is cancelled   *)
(* and its end awaited before the restart signal is set: at the step that  *)
(* sets the restart signal no call of napcat_server is in progress.        *)
(***************************************************************************)
C28_ListenerTaskEndedBeforeSignal ==
    [][(~restart_event /\ restart_event') => ~ListenerTaskRunning]_vars

\* message_send has returned
MsReturned == ms_pc = "returned"

(***************************************************************************)
(* C25: message_send never hands a message over the size ceiling to the    *)
(* router: it returns False for it without a send; a message at or below   *)
(* the ceiling that detection did not block is handed to the router; and   *)
(* every call ends with a returned True or False, never with an exception. *)
(***************************************************************************)
C25_OversizeRejectedBeforeSend ==
    /\ ms_out.forwarded => ms_in.size <= MAX_MESSAGE_SIZE_BYTES
    /\ MsReturned =>
          /\ ms_out.result \in {"True", "False"}
          /\ ms_in.size > MAX_MESSAGE_SIZE_BYTES =>
                (~ms_out.forwarded /\ ms_out.result = "False")
          /\ (ms_in.size <= MAX_MESSAGE_SIZE_BYTES /\ ~ms_out.blocked) =>
                ms_out.forwarded

\* a message one byte over the ceiling, not blocked, was refused
C25_Witness ==
    /\ MsReturned
    /\ ms_in.size = MAX_MESSAGE_SIZE_BYTES + 1
    /\ ~ms_out.blocked
    /\ ms_out.result = "False"

(***************************************************************************)
(* C26: a text-only message the detector classified as blocked is never    *)
(* handed to the router, and the report to the groups is invoked for it,   *)
(* however the warning and the report sends end.                           *)
(***************************************************************************)
C26_BlockedNotForwardedAndReported ==
    (MsReturned /\ ms_out.blocked) => (~ms_out.forwarded /\ ms_out.reported)

\* the rank of a risk level
RiskRank(risk_level) ==
    CASE risk_level = "HIGH" -> 3
      [] risk_level = "MEDIUM" -> 2
      [] risk_level = "LOW" -> 1
      [] risk_level = "NONE" -> 0

(***************************************************************************)
(* C27: the blocking decision follows the documented table: sensitivity 1  *)
(* blocks HIGH, 2 HIGH and MEDIUM, 3 HIGH, MEDIUM and LOW, 4 every level;  *)
(* so a level is blocked exactly when its rank is at least 4 minus the     *)
(* sensitivity, and what a sensitivity blocks the next one blocks too.     *)
(***************************************************************************)
C27_BlockingFollowsTable ==
    /\ (ms_out.risk \in RiskLevels /\ ms_in.sensitivity \in 1 .. 4) =>
          (ms_out.blocked <=> RiskRank(ms_out.risk) >= 4 - ms_in.sensitivity)
    /\ \A sensitivity \in 1 .. 3, risk_level \in RiskLevels :
          should_block(sensitivity, risk_level) => should_block(sensitivity + 1, risk_level)

\* sensitivity 3 blocked a LOW message
C27_Witness ==
    /\ ms_in.sensitivity = 3
    /\ ms_out.risk = "LOW"
    /\ ms_out.blocked

\* the names of the teardown steps of this run, in the order they were taken
StepsTaken == [i \in DOMAIN td_steps |-> td_steps[i].step]

\* a teardown step of this run raised
SomeStepRaised == \E i \in DOMAIN td_steps : td_steps[i].outcome = "raise"

(***************************************************************************)
(* C21: a teardown step that raises is caught and the later steps are      *)
(* still taken: when graceful_shutdown has returned, all five steps of     *)
(* that run have been taken, whichever of them raised; it returns and      *)
(* never ends with an exception.                                           *)
(***************************************************************************)
C21_TeardownFailuresContained ==
    /\ gs_pc # "raised"
    /\ gs_pc = "done" => Len(td_steps) = 5

\* graceful_shutdown returned from a run in which the first step raised
C21_Witness ==
    /\ gs_pc = "done"
    /\ td_steps # <<>>
    /\ td_steps[1].outcome = "raise"
    /\ Len(td_steps) = 5

(***************************************************************************)
(* C22: a second call of graceful_shutdown after the first has returned    *)
(* does not raise and releases nothing again: over all calls the detector, *)
(* the HTTP endpoint and the listener are each released at most once.      *)
(***************************************************************************)
C22_ShutdownIdempotent ==
    /\ gs_pc # "raised"
    /\ \A r \in Resources : released[r] <= 1

\* the second call has returned and everything was released by the first
C22_Witness ==
    /\ gs_run = 2
    /\ gs_pc = "done"
    /\ \A r \in Resources : released[r] = 1

(***************************************************************************)
(* C29: after the drain wait the teardown steps are taken one after the    *)
(* other in the order detector cleanup, HTTP endpoint stop, listener       *)
(* close, back link stop, cancellation of the remaining tasks.             *)
(***************************************************************************)
C29_TeardownInOrder ==
    /\ StepsTaken = SubSeq(<<"cleanup_detector", "http_stop", "ws_close", "mmc_stop",
                             "cancel_tasks">>, 1, Len(td_steps))
    /\ gs_pc \in TeardownPCs => gs_pc = <<"cleanup_detector", "http_stop", "ws_close",
                                          "mmc_stop", "cancel_tasks">>[Len(td_steps) + 1]

\* the teardown is at the cancellation of the tasks and a listener was closed
C29_Witness ==
    /\ gs_pc = "cancel_tasks"
    /\ released["listener"] = 1
    /\ Len(td_steps) = 4

(***************************************************************************)
(* C30: graceful_shutdown always ends: no teardown step waits without a    *)
(* bound on a component that never finishes closing.                       *)
(***************************************************************************)
C30_NoStepWaitsForEver == gs_pc # "hung"


(***************************************************************************)
(* The correlation pool and the callers of _send_message_to_napcat.        *)
(***************************************************************************)
\* the pending requests whose token is the echo of the frame
Matching(decoded) == {p \in pool : Some(p.token) = DictGet(decoded, "echo")}

\* a step of the read loop that reads, outside shutdown, a frame that decodes
\* and has no post_type
ReadsResponse ==
    /\ nrecv' = nrecv + 1
    /\ ~shutdown_requested
    /\ JsonLoads(log'[Len(log')].raw) # None
    /\ DictGet(JsonLoads(log'[Len(log')].raw)[1], "post_type") = None

C24_TimeoutWithinOneSweep ==
    /\ \A i \in 1 .. Len(replies) :
          replies[i].kind = "Timeout" =>
             /\ replies[i].deadline <= replies[i].at
             /\ replies[i].at <= replies[i].deadline + SweepInterval
             /\ replies[i].result.status = "error"
             /\ replies[i].result.message = "timeout"
    /\ \A p \in pool : now <= p.deadline + SweepInterval

\* a request timed out, after its deadline
C24_Witness ==
    \E i \in 1 .. Len(replies) :
       /\ replies[i].kind = "Timeout"
       /\ replies[i].at > replies[i].deadline


(***************************************************************************)
(* C31: the dispatcher runs at most one handler at a time: a handler is    *)
(* entered only from the wait for the next item with no item in hand,      *)
(* processing_messages is 0 or 1, and is 1 only while the one item in hand *)
(* is in its handler (or the dispatcher ended in it); the handler entered  *)
(* last is the one of the item in hand; pending_messages is never negative.*)
(***************************************************************************)
C31_OneHandlerAtATime ==
    /\ processing_messages \in {0, 1}
    /\ pending_messages >= 0
    /\ processing_messages = 1 =>
          (mp_pc \in {"handling", "crashed", "cancelled"} /\ mp_item # <<>>)
    /\ mp_pc \in {"loop", "waiting"} => mp_item = <<>>
    /\ mp_item # <<>> =>
          (dispatched # <<>> /\ dispatched[Len(dispatched)].id = mp_item[1].id)

\* a message handler is running while another item waits in the queue
C31_Witness ==
    /\ mp_pc = "handling"
    /\ processing_messages = 1
    /\ message_queue # <<>>

(***************************************************************************)
(* C32 as stated: a decoded frame that has neither post_type nor echo is   *)
(* not given to put_response.                                              *)
(***************************************************************************)
C32_TokenlessNotToPool ==
    \A i \in DOMAIN response_pool :
        DictGet(response_pool[i].msg, "echo") # None

(***************************************************************************)
(* C36: shutdown_requested is never cleared; a read loop that reads a      *)
(* frame while it is set ends with that frame, which reaches neither the   *)
(* queue nor put_response nor a pending request; an ended read loop does   *)
(* not read again.                                                         *)
(***************************************************************************)
C36_ReadLoopEndsAtFirstFrame ==
    [][/\ shutdown_requested => shutdown_requested'
       /\ (shutdown_requested /\ nrecv' = nrecv + 1) =>
             /\ \E c \in Conns : conn[c] = "open" /\ conn'[c] = "stopped"
             /\ message_queue' = message_queue
             /\ pending_messages' = pending_messages
             /\ response_pool' = response_pool
             /\ pool' = pool
             /\ replies' = replies
       /\ \A c \in Conns : conn[c] = "stopped" => conn'[c] # "open"]_vars

\* after the request one read loop ended on a response frame and another on
\* an event frame
C36_Witness ==
    /\ shutdown_requested
    /\ \E i, j \in DOMAIN log :
          /\ log[i].route = "break" /\ log[i].raw.ok /\ PostType(log[i]) = None
          /\ log[j].route = "break" /\ log[j].raw.ok /\ PostType(log[j]) \in EventTypes
    /\ \A c \in Conns : conn[c] = "stopped"

(***************************************************************************)
(* C37: with a token that is empty or only whitespace, no handshake is     *)
(* rejected, whatever its Authorization header.                            *)
(***************************************************************************)
C37_BlankTokenAcceptsAll ==
    Strip(token) = <<>> =>
        \A c \in Conns : conn[c] # "idle" => conn[c] \in {"open", "stopped", "failed", "closed"}

\* with a whitespace token one attempt without the header and one with a
\* bearer value were accepted
C37_Witness ==
    /\ token # <<>>
    /\ Strip(token) = <<>>
    /\ \E c, d \in Conns :
          /\ conn[c] = "open" /\ AuthHeader(c) = None
          /\ conn[d] = "open" /\ AuthHeader(d) # None


(***************************************************************************)
(* The managed group list.                                                 *)
(***************************************************************************)
\* the request of thread t is well-formed: id a number, action add or rm
ValidRequest(t) ==
    /\ ParseInt(th[t].req.id) # None
    /\ th[t].req.action \in {"add", "rm"}

GroupIdOf(t) == ParseInt(th[t].req.id)[1]

\* the lists that applying the requests of the threads ts to list, one after
\* the other in some order, can give
RECURSIVE SerialResults(_, _)
SerialResults(ts, list) ==
    IF ts = {} THEN {list}
    ELSE UNION {SerialResults(ts \ {t}, UpdateDecision(list, th[t].req).list) : t \in ts}

\* C33 as stated: whenever no request is in progress, the group list is
\* what the requests handled so far give when applied to the initial list
\* one after the other in some order, so that no update is lost.
C33_UpdatesSerializable ==
    (\A t \in Threads : th[t].pc \in {"new", "done"}) =>
        group_list \in SerialResults({t \in Threads : th[t].pc = "done"}, group_list0)

\* C34: with requests handled one after the other from a duplicate-free
\* list, the list stays duplicate-free; adding a present id and removing an
\* absent one answer 200 and leave the list as it was; adding an absent id
\* and removing it with the next request gives back the list from before.
C34_SequentialUpdatesKeepSet ==
    /\ \A i, j \in DOMAIN group_list : group_list[i] = group_list[j] => i = j
    /\ \A t \in Threads :
          (th[t].pc = "done" /\ ValidRequest(t)
             /\ (th[t].req.action = "add" <=> Contains(th[t].before, GroupIdOf(t)))) =>
                (th[t].status = 200 /\ th[t].after = th[t].before)
    /\ \A t, u \in Threads :
          (/\ u = t + 1
           /\ th[t].pc = "done" /\ th[u].pc = "done"
           /\ ValidRequest(t) /\ ValidRequest(u)
           /\ th[t].req.action = "add" /\ th[u].req.action = "rm"
           /\ GroupIdOf(t) = GroupIdOf(u)
           /\ ~Contains(th[t].before, GroupIdOf(t))) =>
                th[u].after = th[t].before

\* an id was added to a list that did not hold it and removed by the next
\* request, which wrote it as another text
C34_Witness ==
    \E t, u \in Threads :
       /\ u = t + 1
       /\ th[t].pc = "done" /\ th[u].pc = "done"
       /\ th[t].req = [id |-> <<"1">>, action |-> "add"]
       /\ th[u].req = [id |-> <<"0", "1">>, action |-> "rm"]
       /\ th[t].before = <<2>>
       /\ th[t].after = <<2, 1>>
       /\ th[u].status = 200

====
